---- MODULE Spec2Model ----
(***************************************************************************)
(* The two sweep scripts of the repository, rigol_iv_curve.py (the voltage *)
(* sweep, script = "iv") and rigol_optimize_power.py (the resistance       *)
(* sweep, script = "rp"), as one state machine.  A state is the position   *)
(* of the script (pc), its module-level variables, the commands it has     *)
(* sent to the instrument session and what it has printed.                 *)
(*                                                                         *)
(* Units.  Measured voltages are in centivolts, currents in amperes and    *)
(* powers in centiwatts, so that power = voltage * current stays exact.    *)
(* Sweep bounds (start, stop, step) are integer-scaled: one unit of a      *)
(* voltage target is 0.2 V, one unit of a sweep resistance is 0.04 ohm.    *)
(* Commanded resistances are in milliohms.                                 *)
(***************************************************************************)
EXTENDS Integers, Sequences, FiniteSets, TLC

VARIABLES
    script,       \* "iv" | "rp": which script runs
    start,        \* V_START / R_START
    stop,         \* V_STOP / R_STOP
    step,         \* V_STEP / R_STEP
    pc,           \* position of the script
    targets,      \* iv: the array np.arange(...) the for loop iterates
    idx,          \* iv: how many targets the for loop has taken
    R,            \* rp: the running resistance
    voltage,      \* last value read by :MEAS:VOLT?  (voltage / V)
    current,      \* last value read by :MEAS:CURR?  (current / I)
    power,        \* voltage * current               (power / P)
    resistances,  \* rp: list resistances
    voltages,     \* list voltages
    currents,     \* list currents
    powers,       \* list powers
    cmds,         \* every inst.write / inst.query issued, in order
    exc,          \* the exception in flight or that ended the script
    outcome,      \* how the sweep loop was left
    report,       \* what the analysis section printed
    max_idx,      \* np.argmax(powers), 1-based; 0 before the analysis
    mpp,          \* <<v_mpp, i_mpp, p_mpp>>
    iter,         \* history: sweep steps begun (setpoints written)
    meas          \* history: the (voltage, current) pairs read, in order

vars == <<script, start, stop, step, pc, targets, idx, R, voltage, current,
          power, resistances, voltages, currents, powers, cmds, exc, outcome,
          report, max_idx, mpp, iter, meas>>

(***************************************************************************)
(* Bounds of the model.                                                    *)
(***************************************************************************)
MaxStart == 1
MaxStop == 2
\* longest run of a loop that the configuration does not end by itself
MaxIter == MaxStart + 1

Starts == 0..MaxStart
Stops == 0..MaxStop
Steps == {-1, 0, 1, 2}
\* what the instrument may answer: centivolts, amperes
VoltReadings == {4, 250, 300}
CurrReadings == {20, 21}

(***************************************************************************)
(* Program constants.                                                      *)
(***************************************************************************)
ESTIMATED_CURRENT == 5
MAX_CURRENT == 20
MAX_POWER == 5000
MIN_RESISTANCE == 80
MAX_RESISTANCE == 15000000
NEAR_ZERO_VOLTAGE == 5

\* a voltage target in millivolts, a sweep resistance in milliohms
TargetMilliVolts(v) == v * 200
SweepMilliOhms(r) == r * 40

(***************************************************************************)
(* Pure helpers.                                                           *)
(***************************************************************************)
CeilDiv(a, b) == -((-a) \div b)

\* np.arange(first, limit, by) for by # 0: first + k*by, k < ceil((limit-first)/by)
Arange(first, limit, by) ==
    LET n == IF by > 0 THEN CeilDiv(limit - first, by)
             ELSE CeilDiv(first - limit, -by)
        len == IF n > 0 THEN n ELSE 0
    IN  [k \in 1..len |-> first + (k - 1) * by]

\* resistance = v_target / ESTIMATED_CURRENT if v_target > 0 else MIN_RESISTANCE
RawResistance(v) ==
    IF v > 0 THEN TargetMilliVolts(v) \div ESTIMATED_CURRENT ELSE MIN_RESISTANCE

\* the clamp of lines 68-71
ClampResistance(r) ==
    IF r < MIN_RESISTANCE THEN MIN_RESISTANCE
    ELSE IF r > MAX_RESISTANCE THEN MAX_RESISTANCE
    ELSE r

Cmd(op, arg) == [op |-> op, arg |-> arg]
Send(op, arg) == cmds' = Append(cmds, Cmd(op, arg))
INPUT_OFF == Cmd("INPUT", 0)
InputOffIssued == \E k \in 1..Len(cmds) : cmds[k] = INPUT_OFF

\* positions inside the try block of either script
TryPcs == {"try", "loop_head", "write_range", "write_res", "query_volt",
           "query_curr", "check_current", "check_power", "append_r",
           "append_v", "append_i", "append_p", "check_volt"}
Terminal == {"done", "crashed"}

(***************************************************************************)
(* Init: the instrument session is open, nothing has been sent.            *)
(***************************************************************************)
Init ==
    /\ script \in {"iv", "rp"}
    /\ start \in Starts
    /\ stop \in Stops
    /\ step \in Steps
    /\ pc = "idn"
    /\ targets = <<>>
    /\ idx = 0
    /\ R = 0
    /\ voltage = 0
    /\ current = 0
    /\ power = 0
    /\ resistances = <<>>
    /\ voltages = <<>>
    /\ currents = <<>>
    /\ powers = <<>>
    /\ cmds = <<>>
    /\ exc = "none"
    /\ outcome = "running"
    /\ report = "none"
    /\ max_idx = 0
    /\ mpp = <<>>
    /\ iter = 0
    /\ meas = <<>>

(***************************************************************************)
(* Shared pieces of the actions.                                           *)
(***************************************************************************)
\* pyvisa raises from a write or query inside the try block: neither script
\* has an except clause for it, so control goes to the finally clause with
\* the exception in flight
RaiseInLoop ==
    /\ exc' = "comm"
    /\ outcome' = "failed"
    /\ pc' = "finally"

\* one instrument command before the try block; a failure there is uncaught
SetupCommand(here, op, arg, next) ==
    /\ pc = here
    /\ Send(op, arg)
    /\ \/ pc' = next /\ exc' = exc
       \/ pc' = "crashed" /\ exc' = "comm"
    /\ UNCHANGED <<script, start, stop, step, targets, idx, R, voltage,
                   current, power, resistances, voltages, currents, powers,
                   outcome, report, max_idx, mpp, iter, meas>>

VOLTAGE_LIMIT == 10

(***************************************************************************)
(* Setup, before the try block.                                            *)
(***************************************************************************)
Identify == SetupCommand("idn", "*IDN?", 0, "func_res")

SetFunction == SetupCommand("func_res", "FUNC RES", 0, "input_on")

EnableInput == SetupCommand("input_on", "INPUT", 1, "volt_lim")

SetVoltageLimit ==
    SetupCommand("volt_lim", "VOLT:LIM",
                 IF script = "iv" THEN TargetMilliVolts(stop)
                 ELSE VOLTAGE_LIMIT * 1000,
                 IF script = "iv" THEN "curr_lim" ELSE "try")

SetCurrentLimit ==
    /\ script = "iv"
    /\ SetupCommand("curr_lim", "CURR:LIM", MAX_CURRENT, "try")

(***************************************************************************)
(* Entering the try block and the loop head.                               *)
(***************************************************************************)
\* iv: np.arange is evaluated once; a zero step makes it raise.
\* rp: R = R_START
EnterSweep ==
    /\ pc = "try"
    /\ \/ /\ script = "iv" /\ step # 0
          /\ targets' = Arange(start, stop + step, step)
          /\ pc' = "loop_head"
          /\ UNCHANGED <<R, exc, outcome>>
       \/ /\ script = "iv" /\ step = 0
          /\ exc' = "value"
          /\ outcome' = "error"
          /\ pc' = "finally"
          /\ UNCHANGED <<R, targets>>
       \/ /\ script = "rp"
          /\ R' = start
          /\ pc' = "loop_head"
          /\ UNCHANGED <<targets, exc, outcome>>
    /\ UNCHANGED <<script, start, stop, step, idx, voltage, current, power,
                   resistances, voltages, currents, powers, cmds, report,
                   max_idx, mpp, iter, meas>>

\* iv: for v_target in <targets>
NextTarget ==
    /\ pc = "loop_head" /\ script = "iv"
    /\ \/ /\ idx < Len(targets)
          /\ idx' = idx + 1
          /\ iter' = iter + 1
          /\ pc' = "write_range"
          /\ UNCHANGED outcome
       \/ /\ idx >= Len(targets)
          /\ outcome' = "completed"
          /\ pc' = "finally"
          /\ UNCHANGED <<idx, iter>>
    /\ UNCHANGED <<script, start, stop, step, targets, R, voltage, current,
                   power, resistances, voltages, currents, powers, cmds, exc,
                   report, max_idx, mpp, meas>>

\* rp: while R >= R_STOP
WhileTest ==
    /\ pc = "loop_head" /\ script = "rp"
    /\ \/ /\ R >= stop
          /\ iter < MaxIter
          /\ iter' = iter + 1
          /\ pc' = "write_res"
          /\ UNCHANGED outcome
       \/ /\ R < stop
          /\ outcome' = "completed"
          /\ pc' = "finally"
          /\ UNCHANGED iter
    /\ UNCHANGED <<script, start, stop, step, targets, idx, R, voltage,
                   current, power, resistances, voltages, currents, powers,
                   cmds, exc, report, max_idx, mpp, meas>>

(***************************************************************************)
(* The loop body: setpoint and measurement.                                *)
(***************************************************************************)
\* one inst.write / inst.query of the loop body that reads nothing back
LoopCommand(here, op, arg, next) ==
    /\ pc = here
    /\ Send(op, arg)
    /\ \/ pc' = next /\ UNCHANGED <<exc, outcome>>
       \/ RaiseInLoop
    /\ UNCHANGED <<script, start, stop, step, targets, idx, R, voltage,
                   current, power, resistances, voltages, currents, powers,
                   report, max_idx, mpp, iter, meas>>

\* iv: inst.write(":RANGE LOW")
WriteRange ==
    /\ script = "iv"
    /\ LoopCommand("write_range", "RANGE LOW", 0, "write_res")

\* iv: inst.write(f":RES {resistance:.3f}"), then the dwell
WriteResIv ==
    /\ script = "iv"
    /\ LoopCommand("write_res", "RES",
                   ClampResistance(RawResistance(targets[idx])), "query_volt")

\* rp: inst.write(f":RES {R:.2f}"), then the dwell
WriteResRp ==
    /\ script = "rp"
    /\ LoopCommand("write_res", "RES", SweepMilliOhms(R), "query_volt")

\* mutant: the reading is appended to the record as soon as it is read
QueryVolt_AppendsEarly ==
    /\ pc = "query_volt"
    /\ Send("MEAS:VOLT?", 0)
    /\ \/ /\ \E v \in VoltReadings :
               /\ voltage' = v
               /\ voltages' = Append(voltages, v)
          /\ pc' = "query_curr"
          /\ UNCHANGED <<exc, outcome>>
       \/ /\ RaiseInLoop
          /\ UNCHANGED <<voltage, voltages>>
    /\ UNCHANGED <<script, start, stop, step, targets, idx, R, current,
                   power, resistances, currents, powers, report, max_idx,
                   mpp, iter, meas>>

\* voltage = float(inst.query(":MEAS:VOLT?"))
QueryVolt ==
    /\ pc = "query_volt"
    /\ Send("MEAS:VOLT?", 0)
    /\ \/ /\ \E v \in VoltReadings : voltage' = v
          /\ pc' = "query_curr"
          /\ UNCHANGED <<exc, outcome>>
       \/ /\ RaiseInLoop
          /\ UNCHANGED voltage
    /\ UNCHANGED <<script, start, stop, step, targets, idx, R, current,
                   power, resistances, voltages, currents, powers, report,
                   max_idx, mpp, iter, meas>>

\* current = float(inst.query(":MEAS:CURR?")); power = voltage * current
QueryCurr ==
    /\ pc = "query_curr"
    /\ Send("MEAS:CURR?", 0)
    /\ \/ /\ \E i \in CurrReadings :
               /\ current' = i
               /\ power' = voltage * i
               /\ meas' = Append(meas, <<voltage, i>>)
          /\ pc' = IF script = "iv" THEN "check_current" ELSE "append_r"
          /\ UNCHANGED <<exc, outcome>>
       \/ /\ RaiseInLoop
          /\ UNCHANGED <<current, power, meas>>
    /\ UNCHANGED <<script, start, stop, step, targets, idx, R, voltage,
                   resistances, voltages, currents, powers, report, max_idx,
                   mpp, iter>>

(***************************************************************************)
(* The loop body: limit checks and the record.                             *)
(***************************************************************************)
\* mutant: the comparison written >= instead of >
CurrentLimitExceeded_Inclusive(c) == c >= MAX_CURRENT

\* if current > MAX_CURRENT
CurrentLimitExceeded(c) == c > MAX_CURRENT

\* if power > MAX_POWER
PowerLimitExceeded(p) == p > MAX_POWER

\* mutant: the threshold test never true of a reading
NearShortCircuit_Never(v) == v < 0

\* if V < 0.05
NearShortCircuit(v) == v < NEAR_ZERO_VOLTAGE

\* mutant: the warning is printed but the break is missing
CheckCurrent_NoBreak ==
    /\ pc = "check_current"
    /\ outcome' = IF CurrentLimitExceeded(current) THEN "current-limit"
                  ELSE outcome
    /\ pc' = "check_power"
    /\ UNCHANGED <<script, start, stop, step, targets, idx, R, voltage,
                   current, power, resistances, voltages, currents, powers,
                   cmds, exc, report, max_idx, mpp, iter, meas>>

\* iv: the first check; break leaves the try block through finally
CheckCurrent ==
    /\ pc = "check_current"
    /\ IF CurrentLimitExceeded(current)
       THEN outcome' = "current-limit" /\ pc' = "finally"
       ELSE outcome' = outcome /\ pc' = "check_power"
    /\ UNCHANGED <<script, start, stop, step, targets, idx, R, voltage,
                   current, power, resistances, voltages, currents, powers,
                   cmds, exc, report, max_idx, mpp, iter, meas>>

\* mutant: the warning is printed but the break is missing
CheckPower_NoBreak ==
    /\ pc = "check_power"
    /\ outcome' = IF PowerLimitExceeded(power) THEN "power-limit" ELSE outcome
    /\ pc' = "append_v"
    /\ UNCHANGED <<script, start, stop, step, targets, idx, R, voltage,
                   current, power, resistances, voltages, currents, powers,
                   cmds, exc, report, max_idx, mpp, iter, meas>>

\* iv: the second check
CheckPower ==
    /\ pc = "check_power"
    /\ IF PowerLimitExceeded(power)
       THEN outcome' = "power-limit" /\ pc' = "finally"
       ELSE outcome' = outcome /\ pc' = "append_v"
    /\ UNCHANGED <<script, start, stop, step, targets, idx, R, voltage,
                   current, power, resistances, voltages, currents, powers,
                   cmds, exc, report, max_idx, mpp, iter, meas>>

\* rp: resistances.append(R)
AppendR ==
    /\ pc = "append_r"
    /\ resistances' = Append(resistances, R)
    /\ pc' = "append_v"
    /\ UNCHANGED <<script, start, stop, step, targets, idx, R, voltage,
                   current, power, voltages, currents, powers, cmds, exc,
                   outcome, report, max_idx, mpp, iter, meas>>

\* voltages.append(voltage)
AppendV ==
    /\ pc = "append_v"
    /\ voltages' = Append(voltages, voltage)
    /\ pc' = "append_i"
    /\ UNCHANGED <<script, start, stop, step, targets, idx, R, voltage,
                   current, power, resistances, currents, powers, cmds, exc,
                   outcome, report, max_idx, mpp, iter, meas>>

\* currents.append(current)
AppendI ==
    /\ pc = "append_i"
    /\ currents' = Append(currents, current)
    /\ pc' = "append_p"
    /\ UNCHANGED <<script, start, stop, step, targets, idx, R, voltage,
                   current, power, resistances, voltages, powers, cmds, exc,
                   outcome, report, max_idx, mpp, iter, meas>>

\* powers.append(power); the iv loop body ends here
AppendP ==
    /\ pc = "append_p"
    /\ powers' = Append(powers, power)
    /\ pc' = IF script = "iv" THEN "loop_head" ELSE "check_volt"
    /\ UNCHANGED <<script, start, stop, step, targets, idx, R, voltage,
                   current, power, resistances, voltages, currents, cmds, exc,
                   outcome, report, max_idx, mpp, iter, meas>>

\* rp: if V < 0.05: break, else R += R_STEP
CheckVolt ==
    /\ pc = "check_volt"
    /\ IF NearShortCircuit(voltage)
       THEN outcome' = "near-short-circuit" /\ pc' = "finally" /\ R' = R
       ELSE outcome' = outcome /\ pc' = "loop_head" /\ R' = R + step
    /\ UNCHANGED <<script, start, stop, step, targets, idx, voltage, current,
                   power, resistances, voltages, currents, powers, cmds, exc,
                   report, max_idx, mpp, iter, meas>>

(***************************************************************************)
(* Leaving the try block.                                                  *)
(***************************************************************************)
\* Ctrl-C: Python raises KeyboardInterrupt in the main thread between any
\* two statements of the try block (a blocking call or sleep returns first)
Interrupt ==
    /\ pc \in TryPcs
    /\ exc' = "kbd"
    /\ outcome' = "operator"
    /\ pc' = "except_kbd"
    /\ UNCHANGED <<script, start, stop, step, targets, idx, R, voltage,
                   current, power, resistances, voltages, currents, powers,
                   cmds, report, max_idx, mpp, iter, meas>>

\* except KeyboardInterrupt: print(...)
HandleInterrupt ==
    /\ pc = "except_kbd"
    /\ exc' = "none"
    /\ pc' = "finally"
    /\ UNCHANGED <<script, start, stop, step, targets, idx, R, voltage,
                   current, power, resistances, voltages, currents, powers,
                   cmds, outcome, report, max_idx, mpp, iter, meas>>

\* mutant: the load is disabled after the try statement instead of in its
\* finally clause, so an exception in flight skips it
Finally_AfterTry ==
    /\ pc = "finally"
    /\ \/ /\ exc = "none"
          /\ Send("INPUT", 0)
          /\ pc' = "analysis"
          /\ UNCHANGED exc
       \/ /\ exc # "none"
          /\ pc' = "crashed"
          /\ UNCHANGED <<exc, cmds>>
       \/ /\ exc = "none"
          /\ Send("INPUT", 0)
          /\ exc' = "comm"
          /\ pc' = "crashed"
    /\ UNCHANGED <<script, start, stop, step, targets, idx, R, voltage,
                   current, power, resistances, voltages, currents, powers,
                   outcome, report, max_idx, mpp, iter, meas>>

\* finally: inst.write(":INPUT OFF").  An exception in flight is re-raised
\* after the clause; a failure of the write itself is raised from it.
Finally ==
    /\ pc = "finally"
    /\ Send("INPUT", 0)
    /\ \/ /\ exc = "none"
          /\ pc' = "analysis"
          /\ UNCHANGED exc
       \/ /\ exc # "none"
          /\ pc' = "crashed"
          /\ UNCHANGED exc
       \/ /\ exc' = "comm"
          /\ pc' = "crashed"
    /\ UNCHANGED <<script, start, stop, step, targets, idx, R, voltage,
                   current, power, resistances, voltages, currents, powers,
                   outcome, report, max_idx, mpp, iter, meas>>

(***************************************************************************)
(* The analysis section.                                                   *)
(***************************************************************************)
\* mutant: the last index of the maximum instead of the first
ArgMax_Last(s) ==
    CHOOSE i \in 1..Len(s) :
        /\ \A j \in 1..Len(s) : s[j] <= s[i]
        /\ \A j \in (i + 1)..Len(s) : s[j] < s[i]

\* np.argmax: the index of the maximum, the first one when it occurs
\* several times (1-based here)
ArgMax(s) ==
    CHOOSE i \in 1..Len(s) :
        /\ \A j \in 1..Len(s) : s[j] <= s[i]
        /\ \A j \in 1..(i - 1) : s[j] < s[i]

\* max_idx = np.argmax(powers); v_mpp, i_mpp, p_mpp = ...[max_idx];
\* np.argmax of an empty array raises ValueError
FindMpp ==
    \/ /\ powers # <<>>
       /\ max_idx' = ArgMax(powers)
       /\ mpp' = <<voltages[max_idx'], currents[max_idx'], powers[max_idx']>>
       /\ report' = "mpp"
       /\ pc' = "done"
       /\ UNCHANGED exc
    \/ /\ powers = <<>>
       /\ exc' = "value"
       /\ pc' = "crashed"
       /\ UNCHANGED <<max_idx, mpp, report>>

\* iv: if voltages: <analysis> else: print("No data collected ...")
AnalyseIv ==
    /\ pc = "analysis" /\ script = "iv"
    /\ \/ /\ voltages # <<>>
          /\ FindMpp
       \/ /\ voltages = <<>>
          /\ report' = "nodata"
          /\ pc' = "done"
          /\ UNCHANGED <<max_idx, mpp, exc>>
    /\ UNCHANGED <<script, start, stop, step, targets, idx, R, voltage,
                   current, power, resistances, voltages, currents, powers,
                   cmds, outcome, iter, meas>>

\* rp: the analysis is not guarded
AnalyseRp ==
    /\ pc = "analysis" /\ script = "rp"
    /\ FindMpp
    /\ UNCHANGED <<script, start, stop, step, targets, idx, R, voltage,
                   current, power, resistances, voltages, currents, powers,
                   cmds, outcome, iter, meas>>

(***************************************************************************)
(* Specifications.                                                         *)
(***************************************************************************)
\* every step the script itself takes
ProgramStep ==
    \/ Identify
    \/ SetFunction
    \/ EnableInput
    \/ SetVoltageLimit
    \/ SetCurrentLimit
    \/ EnterSweep
    \/ NextTarget
    \/ WhileTest
    \/ WriteRange
    \/ WriteResIv
    \/ WriteResRp
    \/ QueryVolt
    \/ QueryCurr
    \/ CheckCurrent
    \/ CheckPower
    \/ AppendR
    \/ AppendV
    \/ AppendI
    \/ AppendP
    \/ CheckVolt
    \/ HandleInterrupt
    \/ Finally
    \/ AnalyseIv
    \/ AnalyseRp

Next == ProgramStep \/ Interrupt

Spec == Init /\ [][Next]_vars

\* the interpreter keeps running the script (every call is blocking with a
\* timeout); the operator need never press Ctrl-C
LiveSpec == Spec /\ WF_vars(ProgramStep)

(***************************************************************************)
(* Properties.                                                             *)
(***************************************************************************)
LeftLoop == outcome # "running"
Ended == pc \in Terminal
NumSetpoints == Cardinality({k \in 1..Len(cmds) : cmds[k].op = "RES"})
Last(s) == s[Len(s)]
MeasPower(k) == meas[k][1] * meas[k][2]

\* the reference decision of the safety monitor, checks in fixed order
Evaluate(c, p) ==
    IF c > MAX_CURRENT THEN "current-limit"
    ELSE IF p > MAX_POWER THEN "power-limit"
    ELSE "continue"

\* the reference tracker: the best index so far, replaced only on a
\* strictly greater power
RECURSIVE TrackBest(_, _, _)
TrackBest(s, k, best) ==
    IF k > Len(s) THEN best
    ELSE TrackBest(s, k + 1, IF best = 0 \/ s[k] > s[best] THEN k ELSE best)

\* C1: however the sweep loop is left (sequence exhausted, safety stop,
\* operator interrupt, communication failure), ':INPUT OFF' is eventually
\* issued, and once it has been issued no further instrument command is sent.
C1_LoadDisabledOnEveryExit ==
    /\ LeftLoop ~> InputOffIssued
    /\ [][InputOffIssued => cmds' = cmds]_vars

\* a sweep ended by a communication failure whose last command is the disable
C1_Witness ==
    /\ Ended /\ outcome = "failed"
    /\ NumSetpoints >= 1
    /\ Last(cmds) = INPUT_OFF

\* C2: in the voltage sweep every recorded current is <= MAX_CURRENT and
\* every recorded power is <= MAX_POWER; a measurement over a limit never
\* reaches the appends.
C2_RecordWithinLimits ==
    script = "iv" =>
        /\ \A k \in 1..Len(currents) : currents[k] <= MAX_CURRENT
        /\ \A k \in 1..Len(powers) : powers[k] <= MAX_POWER
        /\ pc \in {"append_v", "append_i", "append_p"} =>
               current <= MAX_CURRENT /\ power <= MAX_POWER

\* a sweep that recorded a sample and then dropped one over the power limit
C2_Witness ==
    /\ script = "iv" /\ Ended
    /\ outcome = "power-limit"
    /\ Len(powers) >= 1
    /\ Len(meas) = Len(powers) + 1
    /\ MeasPower(Len(meas)) > MAX_POWER

\* C3: the stop decision of the voltage sweep is Evaluate(current, power):
\* current-limit first, then power-limit, else continue; a value equal to
\* its limit does not stop.
C3_DecisionIsEvaluate ==
    script = "iv" =>
        /\ pc \in {"append_v", "append_i", "append_p"} =>
               Evaluate(current, power) = "continue"
        /\ outcome \in {"current-limit", "power-limit"} =>
               outcome = Evaluate(current, power)

\* both limits exceeded at once: the reason is the current limit
C3_Witness ==
    /\ script = "iv"
    /\ current > MAX_CURRENT /\ power > MAX_POWER
    /\ outcome = "current-limit"

\* C4: a communication failure inside the sweep ends it as a Failed outcome
\* reported as data: the load is disabled and the script goes on to its
\* outcome reporting instead of ending in an uncaught exception.
C4_FailureReportedAsData ==
    (Ended /\ outcome = "failed") =>
        /\ InputOffIssued
        /\ pc = "done"
        /\ report \in {"mpp", "nodata"}

\* C5: after a communication failure during step k the record holds exactly
\* the k-1 measurements of the earlier steps, in order, nothing of step k,
\* and the load has been commanded off.
C5_FailureKeepsEarlierSamples ==
    (Ended /\ outcome = "failed") =>
        /\ iter >= 1
        /\ Len(meas) = iter - 1
        /\ voltages = [k \in 1..(iter - 1) |-> meas[k][1]]
        /\ currents = [k \in 1..(iter - 1) |-> meas[k][2]]
        /\ powers = [k \in 1..(iter - 1) |-> MeasPower(k)]
        /\ script = "rp" => Len(resistances) = iter - 1
        /\ InputOffIssued

\* scenario D: the failure is on the third setpoint, two samples are kept
C5_Witness ==
    /\ Ended /\ outcome = "failed"
    /\ iter = 3
    /\ Len(voltages) = 2 /\ Len(currents) = 2 /\ Len(powers) = 2
    /\ Last(cmds) = INPUT_OFF

\* C6: a sweep that ends with no recorded measurement reports the no-data
\* outcome, and np.argmax is never applied to the empty record.
C6_NoDataReported ==
    (Ended /\ LeftLoop /\ outcome # "error" /\ powers = <<>>) =>
        /\ report = "nodata"
        /\ exc # "value"

\* C7: the reported MPP is the recorded sample of maximum power, the one of
\* lowest index among equals: the result of the running tracker.
C7_MppIsFirstMaximum ==
    report = "mpp" =>
        /\ max_idx = TrackBest(powers, 1, 0)
        /\ mpp = <<meas[max_idx][1], meas[max_idx][2], MeasPower(max_idx)>>
        /\ \A k \in 1..Len(powers) : powers[k] <= mpp[3]

\* two samples share the maximum power and the earlier one is reported
C7_Witness ==
    /\ report = "mpp"
    /\ max_idx = 1
    /\ \E k \in 2..Len(powers) : powers[k] = powers[1]

\* C8 as stated: the resistance sweep never records a sample whose voltage
\* is below 0.05 V.
C8_NoNearShortSampleRecorded ==
    script = "rp" =>
        \A k \in 1..Len(voltages) : voltages[k] >= NEAR_ZERO_VOLTAGE

\* C8 amended: the resistance sweep appends the sample whose voltage is
\* below 0.05 V and then stops, so such a sample is the last of the record
\* and no setpoint follows it.
C8_NearShortSampleIsLast ==
    script = "rp" =>
        /\ \A k \in 1..Len(voltages) :
               voltages[k] < NEAR_ZERO_VOLTAGE => k = Len(voltages)
        /\ (\E k \in 1..Len(voltages) : voltages[k] < NEAR_ZERO_VOLTAGE) =>
               pc \notin {"loop_head", "write_res", "query_volt", "query_curr"}
        /\ outcome = "near-short-circuit" =>
               /\ Len(powers) = Len(meas)
               /\ Last(voltages) = voltage
               /\ voltage < NEAR_ZERO_VOLTAGE

\* a resistance sweep stopped on its second sample, which is in the record
C8_Witness ==
    /\ script = "rp" /\ pc = "done"
    /\ outcome = "near-short-circuit"
    /\ Len(voltages) = 2
    /\ voltages[1] >= NEAR_ZERO_VOLTAGE
    /\ voltages[2] < NEAR_ZERO_VOLTAGE

\* C9: in the resistance sweep no setpoint is applied after a measurement
\* whose current exceeds MAX_CURRENT or whose power exceeds MAX_POWER.
C9_ResistanceSweepStopsOnLimit ==
    (script = "rp" /\ pc = "write_res") =>
        \A k \in 1..Len(meas) : Evaluate(meas[k][2], MeasPower(k)) = "continue"

\* C10: a sweep stopped by the operator has completed every step whose
\* setpoint was written: the step was measured, and recorded unless a limit
\* dropped it.
C10_InterruptedStepCompletes ==
    (outcome = "operator" /\ pc # "except_kbd") =>
        /\ Len(meas) = NumSetpoints
        /\ Len(voltages) = Len(powers)
        /\ Len(currents) = Len(powers)
        /\ Len(powers) =
             Cardinality({k \in 1..Len(meas) :
                 script = "rp"
                 \/ Evaluate(meas[k][2], MeasPower(k)) = "continue"})

\* the ':INPUT OFF' write of the finally clause itself raised: no exception
\* was in flight, yet a communication error follows the disable
DisableFailed ==
    InputOffIssued /\ exc = "comm" /\ outcome \notin {"failed", "error"}

\* C11: the load disable is attempted exactly once during finalization, and
\* a communication failure of the disable itself is not raised: the script
\* still goes on to report the outcome (MPP analysis or no-data).
C11_DisableFailureNotRaised ==
    /\ Cardinality({k \in 1..Len(cmds) : cmds[k] = INPUT_OFF}) <= 1
    /\ DisableFailed => pc # "crashed"

Abs(x) == IF x < 0 THEN -x ELSE x
\* the step is nonzero and leads from start toward stop
SignMatches == (step > 0 /\ stop > start) \/ (step < 0 /\ stop < start)
\* the whole sequence of sweep targets is known: the array of the voltage
\* sweep at the head of its for loop, the resistances of a resistance sweep
\* that ran to the end of its while loop
SequenceKnown ==
    \/ script = "iv" /\ pc = "loop_head"
    \/ script = "rp" /\ outcome = "completed"
Emitted == IF script = "iv" THEN targets ELSE resistances
WellFormedSequence(seq) ==
    /\ seq # <<>>
    /\ seq[1] = start
    /\ \A k \in 1..(Len(seq) - 1) : seq[k + 1] - seq[k] = step
    /\ Abs(Last(seq) - stop) <= Abs(step)

\* C12: for a nonzero step whose sign matches stop - start the sequence of
\* sweep targets is non-empty, starts at start, advances by exactly step and
\* ends within one step of stop; for (0, 2, 1) the voltage targets are
\* exactly 0, 1, 2.
C12_SequenceWellFormed ==
    (SequenceKnown /\ SignMatches) =>
        /\ WellFormedSequence(Emitted)
        /\ (script = "iv" /\ start = 0 /\ stop = 2 /\ step = 1) =>
               targets = <<0, 1, 2>>

IsSetpoint(c) == c.op = "RES"
\* the resistances commanded so far, in order, in milliohms
Setpoints == SelectSeq(cmds, IsSetpoint)
Max2(a, b) == IF a > b THEN a ELSE b
Min2(a, b) == IF a < b THEN a ELSE b
\* the reference mapping of a voltage target to a resistance setpoint
ReferenceSetpoint(v) ==
    IF v > 0
    THEN Min2(Max2(TargetMilliVolts(v) \div ESTIMATED_CURRENT, MIN_RESISTANCE),
              MAX_RESISTANCE)
    ELSE MIN_RESISTANCE

\* C13: every resistance commanded with ':RES' lies in [MIN_RESISTANCE,
\* MAX_RESISTANCE] in both scripts; in the voltage sweep it is the clamped
\* v / ESTIMATED_CURRENT for v > 0 and MIN_RESISTANCE otherwise.
C13_SetpointsWithinRange ==
    /\ \A k \in 1..Len(Setpoints) :
           /\ Setpoints[k].arg >= MIN_RESISTANCE
           /\ Setpoints[k].arg <= MAX_RESISTANCE
    /\ script = "iv" =>
           \A k \in 1..Len(Setpoints) :
               Setpoints[k].arg = ReferenceSetpoint(targets[k])

\* maximum ramp steps a configuration could ask for, in milliohms: half a
\* unit of the resistance sweep and a whole one
RampSteps == {20, 40}
\* the k-th sweep target as a resistance, in milliohms
TargetSetpoint(k) ==
    IF script = "iv" THEN ReferenceSetpoint(targets[k])
    ELSE SweepMilliOhms(start + (k - 1) * step)

\* C14: the instrument is moved from one setpoint to the next by commands
\* of which no two consecutive ones differ by more than the maximum ramp
\* step, whatever that step is, and each target is reached exactly.
C14_MovesAreRamped ==
    \A m \in RampSteps :
        /\ \A k \in 1..(Len(Setpoints) - 1) :
               Abs(Setpoints[k + 1].arg - Setpoints[k].arg) <= m
        /\ Len(Setpoints) >= 1 =>
               Last(Setpoints).arg = TargetSetpoint(Len(Setpoints))

\* a zero step, or a step that leads away from stop
InvalidConfiguration ==
    \/ step = 0
    \/ step > 0 /\ stop < start
    \/ step < 0 /\ stop > start
\* commands that act on the load: mode, input, protection limits, setpoint
ActsOnLoad(c) ==
    c.op \in {"FUNC RES", "INPUT", "VOLT:LIM", "CURR:LIM", "RANGE LOW", "RES"}

\* C15: with an invalid sweep configuration no command acting on the load
\* (mode set, input enable, protection limits, setpoint) is ever sent: the
\* configuration error comes before any hardware interaction.
C15_InvalidConfigurationTouchesNothing ==
    InvalidConfiguration => \A k \in 1..Len(cmds) : ~ActsOnLoad(cmds[k])

\* the k-th measurement trips the stop condition of the script that took it
Trips(k) ==
    IF script = "iv" THEN Evaluate(meas[k][2], MeasPower(k)) # "continue"
    ELSE meas[k][1] < NEAR_ZERO_VOLTAGE

\* C16: once a measurement trips a stop condition no further setpoint and
\* no further query is issued: the measurement is the last one, control
\* never returns to the head of the loop, and the only command that follows
\* the query that read it is the load disable.
C16_NothingAfterStopButDisable ==
    \A k \in 1..Len(meas) :
        Trips(k) =>
            /\ k = Len(meas)
            /\ pc \notin {"loop_head", "write_range", "write_res",
                          "query_volt", "query_curr"}
            /\ \/ Last(cmds).op = "MEAS:CURR?"
               \/ /\ Last(cmds) = INPUT_OFF
                  /\ cmds[Len(cmds) - 1].op = "MEAS:CURR?"
            /\ Ended => Last(cmds) = INPUT_OFF

\* a sweep whose second measurement tripped, ended with the disable
C16_Witness ==
    /\ Len(meas) = 2
    /\ Trips(2)
    /\ Ended
    /\ Last(cmds) = INPUT_OFF
    /\ NumSetpoints = 2

\* a sequence that starts at start and proceeds by a nonzero whole step
\* until it passes stop has at most this many elements
SequenceLengthBound == Abs(stop - start) + 1

\* C17: the setpoint sequence is finite, so for a nonzero step the loop of
\* either script begins no more steps than such a sequence has elements,
\* whatever the instrument answers, and then goes on to the finalization.
C17_LoopIsBounded ==
    step # 0 => iter <= SequenceLengthBound

\* C18: for a positive step and start <= stop, no target the voltage sweep
\* iterates over lies beyond the configured stop, also when the step does
\* not divide stop - start.
C18_NoTargetBeyondStop ==
    (script = "iv" /\ step > 0 /\ start <= stop) =>
        \A k \in 1..Len(targets) : targets[k] <= stop

Positions(op) == {k \in 1..Len(cmds) : cmds[k].op = op}
FirstSetpoint == CHOOSE k \in Positions("RES") : \A j \in Positions("RES") : k <= j
AppliedOnceBefore(op) ==
    /\ Cardinality(Positions(op)) = 1
    /\ \A k \in Positions(op) : k < FirstSetpoint

\* C19: in both scripts, once a setpoint has been written, the
\* constant-resistance mode, the voltage protection limit and the current
\* protection limit have each been written exactly once, all of them before
\* the first setpoint and none of them again inside the loop.
C19_ProtectionAppliedBeforeSetpoints ==
    Positions("RES") # {} =>
        /\ AppliedOnceBefore("FUNC RES")
        /\ AppliedOnceBefore("VOLT:LIM")
        /\ AppliedOnceBefore("CURR:LIM")

\* index k of the record denotes one complete sample
CompleteSample(k) ==
    /\ k <= Len(voltages) /\ k <= Len(currents) /\ k <= Len(powers)
    /\ script = "rp" => k <= Len(resistances)
    /\ powers[k] = voltages[k] * currents[k]
RecordLengths ==
    {Len(voltages), Len(currents), Len(powers)}
        \cup (IF script = "rp" THEN {Len(resistances)} ELSE {})

\* C20: once the loop has been left, by whatever path, an operator
\* interrupt between two statements of the body included, the parallel
\* record lists have one common length and every index of the record is a
\* complete sample whose power is voltage times current.
C20_RecordListsAligned ==
    LeftLoop =>
        /\ Cardinality(RecordLengths) = 1
        /\ \A k \in 1..Len(voltages) : CompleteSample(k)

====
